---- MODULE Spec2Model ----
(***************************************************************************)
(* Outbox dispatcher of rywible/radcomm: OutboxPoller (outboxPoller.ts)    *)
(* over the outbox and outbox_dead_letter tables (orm.ts).                 *)
(*                                                                         *)
(* Time is in milliseconds, as in the source (Date.getTime()).  A          *)
(* database transaction is one action: the rows it touches are selected    *)
(* FOR UPDATE (or written), so under PostgreSQL's row locks no other       *)
(* transaction reads or writes them between its first statement and its    *)
(* commit, and READ COMMITTED hides its uncommitted writes from the plain  *)
(* reads.  The awaits of the poller separate the actions: the lease, the  *)
(* fetch of a row (after which both handlers are invoked in the same       *)
(* turn), the settling of the handler promises, and the statement that     *)
(* disposes of the row.  The continuation that follows the last pipeline   *)
(* of a chunk (Promise.all resolves, the next chunk.map runs) has no await *)
(* and belongs to the action that ends that pipeline.                      *)
(***************************************************************************)
EXTENDS Bags, FiniteSets, Integers, Naturals, Sequences, TLC

\* ---- bounds of the model ----
NumMsgs == 2
NumWorkers == 2
MaxTicks == 2
MaxMaxAttempts == 2

\* in the liveness specification a handler call may fail only while its
\* message has been dispatched at most this many times
LiveFailBudget == 1

\* ---- configuration of the pollers ----
LeaseBatchSize == 2
\* the largest processBatchSize a poller is constructed with
ProcessBatchSize == 2
\* processBatchSize of the pollers of the liveness specification
LiveProcessBatchSize == 1
\* database errors per operation and message
MaxDbErrors == 1
\* how far below zero a misconfigured batch size goes
NegativeSizes == 1
\* maxAttempts of the poller that works on rows with many attempts behind
\* them (large enough for the backoff to reach its cap)
SeedMaxAttempts == 10
\* handler invocations per message up to which its id is inserted again
SeedCallBudget == 2

\* ---- constants of the source ----
StaleLeaseMs == 300000
BaseDelayMs == 1000
MaxDelayMs == 300000
JitterRangeMs == 1000
ShutdownTimeoutMs == 30000
CheckIntervalMs == 100
LastErrorMaxLen == 255
ProjectionPrefixLen == 25
ExternalPrefixLen == 29
JoinSeparatorLen == 3
NoneLen == 4
ShortErrorLen == 13
LongErrorLen == 300

Ids == 1..NumMsgs
\* the database operations of the poller that can raise: the lease
\* transaction, the DELETE of the success path, the failure transaction
DbOps == {"lease", "delete", "failure"}
\* the batch sizes a poller is constructed with: a proper one, zero, or a
\* negative one
LeaseBatchSizes == {0 - NegativeSizes, 0, LeaseBatchSize}
ProcessBatchSizes == {0 - NegativeSizes, 0} \cup 1..ProcessBatchSize
Workers == 1..NumWorkers
\* SQL NULL in a timestamp column
Null == -1
\* the absence of a row with a given id
NoRow == [status |-> "absent"]

\* the clock advances by the shortest backoff (so that a retry is met
\* before, at and after its next_available_at) or by the stale-lease
\* duration (likewise for a lease)
TickSteps == {BaseDelayMs * 2, StaleLeaseMs}
\* Math.random() * 1000, truncated by new Date(): the two ends of [0, 1000)
JitterSet == {0, JitterRangeMs - 1}

Min(a, b) == IF a <= b THEN a ELSE b

RECURSIVE Pow2(_)
Pow2(n) == IF n <= 0 THEN 1 ELSE 2 * Pow2(n - 1)

\* the integration event stored with message id (opaque to the poller)
EventOf(id) == [eventId |-> id, eventName |-> "product.created"]

\* error strings a handler may report: a short one and one longer than
\* the last_error column
ErrShort == [text |-> "Handler error", len |-> ShortErrorLen]
ErrLong == [text |-> "long error", len |-> LongErrorLen]
ErrNone == [text |-> "None", len |-> NoneLen]
\* result.error is undefined
NoError == [text |-> "undefined", len |-> 0]
NoEvent == [eventId |-> 0, eventName |-> "none"]
ProjectionErrors == {ErrShort, ErrLong}
ExternalErrors == {ErrShort}

\* what one handler call can do: return success, return failure with an
\* error string, or throw
ResSuccess == [kind |-> "success", error |-> NoError]
ResFailure(e) == [kind |-> "failure", error |-> e]
\* a thrown error is only logged by processBatch: its text plays no part
ResThrow == [kind |-> "throw", error |-> NoError]
ProjectionResults ==
  {ResSuccess, ResThrow} \cup {ResFailure(e) : e \in ProjectionErrors}
ExternalResults ==
  {ResSuccess, ResThrow} \cup {ResFailure(e) : e \in ExternalErrors}

NoResult == [kind |-> "none", error |-> NoError]
IdlePipe ==
  [stage |-> "idle", event |-> NoEvent, proj |-> NoResult, ext |-> NoResult]

\* the lease under which a worker processes its batch: the instant of the
\* UPDATE of leaseMessages, forgotten once the lease is older than five
\* minutes (from then on only that it is stale matters)
NoLease == [at |-> Null, stale |-> FALSE]
LeaseAt(t) == [at |-> t, stale |-> FALSE]
StaleLease == [at |-> Null, stale |-> TRUE]
AgeLease(l, t) ==
  IF l.at # Null /\ l.at < t - StaleLeaseMs THEN StaleLease ELSE l

\* the calls of poll() on one poller: the one that runs the loop, and a
\* later one made after shutdown()
Calls == {"main", "late"}

\* concurrent calls of CreateOrderService.execute and the orderIds they
\* are given
NumExecs == 3
NumOrders == 2
Execs == 1..NumExecs
OrderIds == 1..NumOrders
IdleExec == [pc |-> "idle", orderId |-> Null, error |-> "none"]

VARIABLES
  outbox,             \* outbox table: id -> row or NoRow
  dlq,                \* outbox_dead_letter table: bag of rows
  now,                \* wall clock, ms
  ticks,              \* number of clock steps taken
  maxAttempts,        \* OutboxPoller.maxAttempts (same for all workers)
  processBatchSize,   \* OutboxPoller.processBatchSize (same for all workers)
  leaseBatchSize,     \* OutboxPoller.leaseBatchSize (same for all workers)
  inserted,           \* ids the writer has inserted so far
  wpc,                \* position of each worker's poll()
  isShuttingDown,     \* OutboxPoller.isShuttingDown
  shutdownAt,         \* history: the instant shutdown() was first called
  latePoll,           \* position of a poll() called after shutdown()
  waitStart,          \* startTime of waitForInFlightOperations, per call
  proc,               \* the worker process: running or exited with a code
  inFlightOperations, \* OutboxPoller.inFlightOperations
  chunks,             \* chunksToProcess still to run, head = running chunk
  pipe,               \* per worker and id: the processMessage pipeline
  batchLease,         \* history: the lease of the batch a worker processes
  projCalls,          \* history: projection handler invocations per id
  extCalls,           \* history: external-effect handler invocations per id
  handledBy,          \* history: workers that invoked the handlers for id
  handlerFailed,      \* history: some handler call did not return success
  staleSeen,          \* history: some lease has been stale at some instant
  succeeded,          \* history: id was deleted by the success path
  dbErrors,           \* history: database errors per operation and id
  events,             \* events table: the committed rows
  execs               \* per CreateOrderService.execute call: its transaction

vars == <<outbox, dlq, now, ticks, maxAttempts, processBatchSize,
          leaseBatchSize, inserted, wpc, isShuttingDown, shutdownAt, latePoll, waitStart, proc,
          inFlightOperations, chunks, pipe, batchLease, projCalls,
          extCalls, handledBy, handlerFailed, staleSeen, succeeded,
          dbErrors, events, execs>>

dbVars == <<outbox, dlq>>
cfgVars == <<maxAttempts, processBatchSize, leaseBatchSize>>
faultVars == <<dbErrors>>
orderVars == <<events, execs>>
shutVars == <<isShuttingDown, shutdownAt, latePoll, waitStart, proc>>
pollVars == <<wpc, shutVars, inFlightOperations, chunks, pipe>>
workerVars == <<pollVars, batchLease>>
histVars ==
  <<projCalls, extCalls, handledBy, handlerFailed, staleSeen, succeeded>>

\* the tables, the clock and the pollers after construction
InitState ==
  /\ outbox = [id \in Ids |-> NoRow]
  /\ dlq = EmptyBag
  /\ now = 0
  /\ ticks = 0
  /\ inserted = {}
  /\ wpc = [w \in Workers |-> "loop"]
  /\ isShuttingDown = [w \in Workers |-> FALSE]
  /\ shutdownAt = [w \in Workers |-> Null]
  /\ latePoll = [w \in Workers |-> "none"]
  /\ waitStart = [w \in Workers |-> [c \in Calls |-> Null]]
  /\ proc = [w \in Workers |-> "running"]
  /\ inFlightOperations = [w \in Workers |-> 0]
  /\ chunks = [w \in Workers |-> <<>>]
  /\ pipe = [w \in Workers |-> [id \in Ids |-> IdlePipe]]
  /\ batchLease = [w \in Workers |-> NoLease]
  /\ projCalls = [id \in Ids |-> 0]
  /\ extCalls = [id \in Ids |-> 0]
  /\ handledBy = [id \in Ids |-> {}]
  /\ handlerFailed = FALSE
  /\ staleSeen = FALSE
  /\ succeeded = [id \in Ids |-> FALSE]
  /\ dbErrors = [op \in DbOps |-> [id \in Ids |-> 0]]
  /\ events = {}
  /\ execs = [k \in Execs |-> IdleExec]

Init ==
  /\ maxAttempts \in 1..MaxMaxAttempts
  /\ processBatchSize \in ProcessBatchSizes
  /\ leaseBatchSize \in LeaseBatchSizes
  /\ InitState

\* ---- the tables ----

PendingRow(ev) ==
  [status |-> "pending", leasedAt |-> Null, nextAvailableAt |-> Null,
   attempts |-> 0, event |-> ev]

\* ids that have a row in outbox_dead_letter
DlqIds(d) == {r.id : r \in BagToSet(d)}

\* number of outbox_dead_letter rows with this id
DlqCount(d, id) ==
  LET rows == {r \in BagToSet(d) : r.id = id}
      RECURSIVE Sum(_)
      Sum(S) == IF S = {} THEN 0
                ELSE LET r == CHOOSE x \in S : TRUE
                     IN CopiesIn(r, d) + Sum(S \ {r})
  IN Sum(rows)

\* variant: the stale-lease branch tests the status 'pending'
IsStaleWrongStatus(row, t) ==
  /\ row.status = "pending"
  /\ row.leasedAt # Null
  /\ row.leasedAt < t - StaleLeaseMs

\* lt(OutboxTable.leasedAt, staleLeaseCutoff)
IsStale(row, t) ==
  /\ row.status = "in_progress"
  /\ row.leasedAt # Null
  /\ row.leasedAt < t - StaleLeaseMs

\* variant: every in_progress row is selected, whatever its leased_at
EligibleIgnoringLease(row, t) ==
  /\ row # NoRow
  /\ \/ /\ row.status = "pending"
        /\ \/ row.nextAvailableAt = Null
           \/ row.nextAvailableAt < t
     \/ row.status = "in_progress"

\* variant: every pending row is selected, whatever its next_available_at
EligibleIgnoringSchedule(row, t) ==
  /\ row # NoRow
  /\ \/ row.status = "pending"
     \/ IsStale(row, t)

\* variant: the stale-lease branch of the WHERE clause is missing
EligibleOnlyPending(row, t) ==
  /\ row # NoRow
  /\ row.status = "pending"
  /\ \/ row.nextAvailableAt = Null
     \/ row.nextAvailableAt < t

\* the WHERE clause of getPendingIdsWithLock at time t
Eligible(row, t) ==
  /\ row # NoRow
  /\ \/ /\ row.status = "pending"
        /\ \/ row.nextAvailableAt = Null
           \/ row.nextAvailableAt < t
     \/ IsStale(row, t)

RECURSIVE SortAsc(_)
SortAsc(S) ==
  IF S = {} THEN <<>>
  ELSE LET m == CHOOSE x \in S : \A y \in S : x <= y
       IN <<m>> \o SortAsc(S \ {m})

\* variant: LIMIT keeps the last n rows of the ordered result
TakeLast(s, n) ==
  IF n <= 0 THEN <<>>
  ELSE SubSeq(s, Len(s) - Min(n, Len(s)) + 1, Len(s))

Take(s, n) == IF n <= 0 THEN <<>> ELSE SubSeq(s, 1, Min(n, Len(s)))

SeqToSet(s) == {s[i] : i \in 1..Len(s)}

\* SELECT id ... ORDER BY id FOR UPDATE LIMIT leaseBatchSize
getPendingIdsWithLock(tbl, t, limit) ==
  Take(SortAsc({id \in Ids : Eligible(tbl[id], t)}), limit)

\* variant: the UPDATE sets leased_at and leaves the status as it is
markInProgressKeepsStatus(tbl, ids, t) ==
  [id \in Ids |->
     IF id \in SeqToSet(ids) /\ tbl[id] # NoRow
     THEN [tbl[id] EXCEPT !.leasedAt = t]
     ELSE tbl[id]]

\* variant: the UPDATE of the lease also writes attempts = 0
markInProgressResetsAttempts(tbl, ids, t) ==
  [id \in Ids |->
     IF id \in SeqToSet(ids) /\ tbl[id] # NoRow
     THEN [tbl[id] EXCEPT !.status = "in_progress", !.leasedAt = t,
                          !.attempts = 0]
     ELSE tbl[id]]

\* variant: the UPDATE of the lease also clears next_available_at
markInProgressClearsSchedule(tbl, ids, t) ==
  [id \in Ids |->
     IF id \in SeqToSet(ids) /\ tbl[id] # NoRow
     THEN [tbl[id] EXCEPT !.status = "in_progress", !.leasedAt = t,
                          !.nextAvailableAt = Null]
     ELSE tbl[id]]

\* UPDATE outbox SET status = 'in_progress', leased_at = now WHERE id IN ids
markInProgress(tbl, ids, t) ==
  [id \in Ids |->
     IF id \in SeqToSet(ids) /\ tbl[id] # NoRow
     THEN [tbl[id] EXCEPT !.status = "in_progress", !.leasedAt = t]
     ELSE tbl[id]]

\* variant: a limit of zero or less means no limit
leaseMessagesUnlimited(tbl, t, limit) ==
  getPendingIdsWithLock(tbl, t, IF limit <= 0 THEN NumMsgs ELSE limit)

\* the ids leaseMessages returns
leaseMessages(tbl, t, limit) ==
  IF limit <= 0 THEN <<>> ELSE getPendingIdsWithLock(tbl, t, limit)

\* variant: the whole batch is one chunk
createChunksToProcessSingle(ids, size) ==
  IF size <= 0 \/ Len(ids) = 0 THEN <<>> ELSE <<ids>>

\* variant: a chunk size of zero or less is taken as one
createChunksToProcessClamped(ids, size) ==
  LET sz == IF size <= 0 THEN 1 ELSE size
  IN [k \in 1..((Len(ids) + sz - 1) \div sz) |->
        SubSeq(ids, (k - 1) * sz + 1, Min(k * sz, Len(ids)))]

RECURSIVE createChunksToProcess(_, _)
createChunksToProcess(ids, size) ==
  IF size <= 0 \/ Len(ids) = 0 THEN <<>>
  ELSE <<Take(ids, size)>> \o
       createChunksToProcess(SubSeq(ids, Min(size, Len(ids)) + 1, Len(ids)),
                             size)

\* variant: the exponent is one too small
calculateBackoffDelayOffByOne(attempts, t, jitter) ==
  t + Min(BaseDelayMs * Pow2(attempts - 1), MaxDelayMs) + jitter

\* variant: the exponential delay is not capped
calculateBackoffDelayNoCap(attempts, t, jitter) ==
  t + BaseDelayMs * Pow2(attempts) + jitter

\* calculateBackoffDelay: the instant of the next attempt
calculateBackoffDelay(attempts, t, jitter) ==
  t + Min(BaseDelayMs * Pow2(attempts), MaxDelayMs) + jitter

\* the errors array of handleIntegrationEvent, joined with " | "
ErrorOf(res) == IF res.error = NoError THEN ErrNone ELSE res.error

JoinErrors(pres, eres) ==
  [parts |-> <<ErrorOf(pres).text, ErrorOf(eres).text>>,
   len |-> ProjectionPrefixLen + ErrorOf(pres).len + JoinSeparatorLen
           + ExternalPrefixLen + ErrorOf(eres).len]

\* variant: && in place of ||
hasErrorsWhenBothFail(pres, eres) ==
  pres.kind # "success" /\ eres.kind # "success"

\* hasErrors of handleIntegrationEvent
hasErrors(pres, eres) == pres.kind # "success" \/ eres.kind # "success"

\* INSERT INTO outbox_dead_letter ... ON CONFLICT DO NOTHING (id is the
\* primary key)
\* variant: ON CONFLICT DO UPDATE, the new row replaces the existing one
DlqInsertOverwrite(d, row) ==
  SetToBag({r \in BagToSet(d) : r.id # row.id} \cup {row})

DlqInsert(d, row) == IF row.id \in DlqIds(d) THEN d ELSE d (+) SetToBag({row})

\* last_error is varchar(255): a longer value makes the INSERT fail
FitsLastError(err) == err.len <= LastErrorMaxLen

\* variant: the DELETE of the outbox row is missing
moveToDeadLetterQueueKeepsRow(tbl, d, id, ev, err, t) ==
  [outbox |-> tbl,
   dlq |-> DlqInsert(d, [id |-> id, failedAt |-> t, event |-> ev,
                         lastError |-> err])]

\* moveToDeadLetterQueue: the two tables after the transaction's statements
moveToDeadLetterQueue(tbl, d, id, ev, err, t) ==
  [outbox |-> [tbl EXCEPT ![id] = NoRow],
   dlq |-> DlqInsert(d, [id |-> id, failedAt |-> t, event |-> ev,
                         lastError |-> err])]

\* variant: the UPDATE does not write leased_at
scheduleRetryKeepsLease(tbl, id, attempts, t, jitter) ==
  [tbl EXCEPT ![id] =
     IF tbl[id] = NoRow THEN NoRow
     ELSE [tbl[id] EXCEPT !.status = "pending", !.attempts = attempts,
             !.nextAvailableAt = calculateBackoffDelay(attempts, t, jitter)]]

\* scheduleRetry: the outbox after the UPDATE
scheduleRetry(tbl, id, attempts, t, jitter) ==
  [tbl EXCEPT ![id] =
     IF tbl[id] = NoRow THEN NoRow
     ELSE [tbl[id] EXCEPT !.status = "pending", !.attempts = attempts,
             !.nextAvailableAt = calculateBackoffDelay(attempts, t, jitter),
             !.leasedAt = Null]]

\* variant: no re-select of the row (an absent row counts as attempts = 0)
\* and a plain INSERT into a dead-letter table without a key
handleMessageFailureNoReselect(tbl, d, id, ev, err, t, jitter, maxAtt) ==
  LET attempts == IF tbl[id] = NoRow THEN 1 ELSE tbl[id].attempts + 1
  IN IF attempts >= maxAtt
     THEN IF FitsLastError(err)
          THEN [outbox |-> [tbl EXCEPT ![id] = NoRow],
                dlq |-> d (+) SetToBag({[id |-> id, failedAt |-> t,
                                         event |-> ev, lastError |-> err]})]
          ELSE [outbox |-> tbl, dlq |-> d]
     ELSE [outbox |-> scheduleRetry(tbl, id, attempts, t, jitter), dlq |-> d]

\* variant: > in place of >= in the test of the budget
handleMessageFailureStrictBudget(tbl, d, id, ev, err, t, jitter, maxAtt) ==
  IF tbl[id] = NoRow
  THEN [outbox |-> tbl, dlq |-> d]
  ELSE LET attempts == tbl[id].attempts + 1
       IN IF attempts > maxAtt
          THEN IF FitsLastError(err)
               THEN moveToDeadLetterQueue(tbl, d, id, ev, err, t)
               ELSE [outbox |-> tbl, dlq |-> d]
          ELSE [outbox |-> scheduleRetry(tbl, id, attempts, t, jitter),
                dlq |-> d]

\* variant: a row that is absent at the re-select is dead-lettered
handleMessageFailureAbsentToDlq(tbl, d, id, ev, err, t, jitter, maxAtt) ==
  IF tbl[id] = NoRow
  THEN [outbox |-> tbl,
        dlq |-> IF FitsLastError(err)
                THEN DlqInsert(d, [id |-> id, failedAt |-> t, event |-> ev,
                                   lastError |-> err])
                ELSE d]
  ELSE LET attempts == tbl[id].attempts + 1
       IN IF attempts >= maxAtt
          THEN IF FitsLastError(err)
               THEN moveToDeadLetterQueue(tbl, d, id, ev, err, t)
               ELSE [outbox |-> tbl, dlq |-> d]
          ELSE [outbox |-> scheduleRetry(tbl, id, attempts, t, jitter),
                dlq |-> d]

\* handleMessageFailure: the tables the transaction commits; when a
\* statement raises, the transaction is rolled back and nothing changes
handleMessageFailure(tbl, d, id, ev, err, t, jitter, maxAtt) ==
  IF tbl[id] = NoRow
  THEN [outbox |-> tbl, dlq |-> d]
  ELSE LET attempts == tbl[id].attempts + 1
       IN IF attempts >= maxAtt
          THEN IF FitsLastError(err)
               THEN moveToDeadLetterQueue(tbl, d, id, ev, err, t)
               ELSE [outbox |-> tbl, dlq |-> d]
          ELSE [outbox |-> scheduleRetry(tbl, id, attempts, t, jitter),
                dlq |-> d]

\* markMessageAsProcessed: DELETE FROM outbox WHERE id = ...
markMessageAsProcessed(tbl, id) == [tbl EXCEPT ![id] = NoRow]

\* ---- pipelines ----

StartPipes(p, chunk) ==
  [id \in Ids |->
     IF id \in SeqToSet(chunk)
     THEN [IdlePipe EXCEPT !.stage = "fetching"]
     ELSE p[id]]

ChunkFinished(p, chunk) == \A id \in SeqToSet(chunk) : p[id].stage = "idle"

\* variant: the end of a chunk ends the batch (the chunks that follow are
\* not processed)
EndPipeDropsBatch(w, id) ==
  LET p == [pipe[w] EXCEPT ![id] = IdlePipe]
      n == inFlightOperations[w] - 1
  IN /\ pipe' = [pipe EXCEPT ![w] = p]
     /\ inFlightOperations' = [inFlightOperations EXCEPT ![w] = n]
     /\ IF ~ChunkFinished(p, Head(chunks[w]))
        THEN UNCHANGED <<wpc, chunks, batchLease>>
        ELSE /\ chunks' = [chunks EXCEPT ![w] = <<>>]
             /\ wpc' = [wpc EXCEPT ![w] = "loop"]
             /\ batchLease' = [batchLease EXCEPT ![w] = NoLease]

\* variant: once shutdown() was called, the chunks that follow the
\* finished one are dropped
EndPipeStopsOnShutdown(w, id) ==
  LET p == [pipe[w] EXCEPT ![id] = IdlePipe]
      n == inFlightOperations[w] - 1
  IN IF ~ChunkFinished(p, Head(chunks[w]))
     THEN /\ pipe' = [pipe EXCEPT ![w] = p]
          /\ inFlightOperations' = [inFlightOperations EXCEPT ![w] = n]
          /\ UNCHANGED <<wpc, chunks, batchLease>>
     ELSE IF Tail(chunks[w]) = <<>> \/ isShuttingDown[w]
          THEN /\ chunks' = [chunks EXCEPT ![w] = <<>>]
               /\ wpc' = [wpc EXCEPT ![w] = "loop"]
               /\ pipe' = [pipe EXCEPT ![w] = p]
               /\ inFlightOperations' = [inFlightOperations EXCEPT ![w] = n]
               /\ batchLease' = [batchLease EXCEPT ![w] = NoLease]
          ELSE /\ chunks' = [chunks EXCEPT ![w] = Tail(chunks[w])]
               /\ pipe' = [pipe EXCEPT
                    ![w] = StartPipes(p, Head(Tail(chunks[w])))]
               /\ inFlightOperations' = [inFlightOperations EXCEPT
                    ![w] = n + Len(Head(Tail(chunks[w])))]
               /\ UNCHANGED <<wpc, batchLease>>

\* variant: the callback does not decrement inFlightOperations
EndPipeKeepsCount(w, id) ==
  LET p == [pipe[w] EXCEPT ![id] = IdlePipe]
      n == inFlightOperations[w]
  IN IF ~ChunkFinished(p, Head(chunks[w]))
     THEN /\ pipe' = [pipe EXCEPT ![w] = p]
          /\ inFlightOperations' = [inFlightOperations EXCEPT ![w] = n]
          /\ UNCHANGED <<wpc, chunks, batchLease>>
     ELSE /\ chunks' = [chunks EXCEPT ![w] = Tail(chunks[w])]
          /\ IF Tail(chunks[w]) = <<>>
             THEN /\ wpc' = [wpc EXCEPT ![w] = "loop"]
                  /\ pipe' = [pipe EXCEPT ![w] = p]
                  /\ inFlightOperations' = [inFlightOperations EXCEPT ![w] = n]
                  /\ batchLease' = [batchLease EXCEPT ![w] = NoLease]
             ELSE /\ pipe' = [pipe EXCEPT
                       ![w] = StartPipes(p, Head(Tail(chunks[w])))]
                  /\ inFlightOperations' = [inFlightOperations EXCEPT
                       ![w] = n + Len(Head(Tail(chunks[w])))]
                  /\ UNCHANGED <<wpc, batchLease>>

\* the end of one chunk.map callback (finally: inFlightOperations--) and,
\* when it was the last of its chunk, the continuation of processBatch:
\* the next chunk's callbacks start, or processBatch returns to poll()
EndPipe(w, id) ==
  LET p == [pipe[w] EXCEPT ![id] = IdlePipe]
      n == inFlightOperations[w] - 1
  IN IF ~ChunkFinished(p, Head(chunks[w]))
     THEN /\ pipe' = [pipe EXCEPT ![w] = p]
          /\ inFlightOperations' = [inFlightOperations EXCEPT ![w] = n]
          /\ UNCHANGED <<wpc, chunks, batchLease>>
     ELSE /\ chunks' = [chunks EXCEPT ![w] = Tail(chunks[w])]
          /\ IF Tail(chunks[w]) = <<>>
             THEN /\ wpc' = [wpc EXCEPT ![w] = "loop"]
                  /\ pipe' = [pipe EXCEPT ![w] = p]
                  /\ inFlightOperations' = [inFlightOperations EXCEPT ![w] = n]
                  /\ batchLease' = [batchLease EXCEPT ![w] = NoLease]
             ELSE /\ pipe' = [pipe EXCEPT
                       ![w] = StartPipes(p, Head(Tail(chunks[w])))]
                  /\ inFlightOperations' = [inFlightOperations EXCEPT
                       ![w] = n + Len(Head(Tail(chunks[w])))]
                  /\ UNCHANGED <<wpc, batchLease>>

\* ---- actions ----

\* the writer inserts a message (createOutboxMessage)
Insert(id) ==
  /\ id \notin inserted
  /\ inserted' = inserted \cup {id}
  /\ outbox' = [outbox EXCEPT ![id] = PendingRow(EventOf(id))]
  /\ UNCHANGED <<dlq, now, ticks, cfgVars, orderVars, faultVars, workerVars, histVars>>

\* time passes
Tick(d) ==
  /\ ticks < MaxTicks
  /\ ticks' = ticks + 1
  /\ now' = now + d
  /\ staleSeen' = (staleSeen \/
       \E id \in Ids : outbox[id] # NoRow /\ IsStale(outbox[id], now + d))
  /\ batchLease' = [w \in Workers |-> AgeLease(batchLease[w], now + d)]
  /\ UNCHANGED <<dbVars, cfgVars, orderVars, faultVars, inserted, pollVars, projCalls,
                 extCalls, handledBy, handlerFailed, succeeded>>

\* variant: the loop does not test isShuttingDown
PollCycleIgnoringShutdown(w) ==
  /\ proc[w] = "running"
  /\ wpc[w] = "loop"
  /\ LET ids == leaseMessages(outbox, now, leaseBatchSize)
         chks == createChunksToProcess(ids, processBatchSize)
     IN /\ outbox' = markInProgress(outbox, ids, now)
        /\ chunks' = [chunks EXCEPT ![w] = chks]
        /\ IF chks = <<>>
           THEN UNCHANGED <<wpc, pipe, inFlightOperations, batchLease>>
           ELSE /\ wpc' = [wpc EXCEPT ![w] = "chunk"]
                /\ batchLease' = [batchLease EXCEPT ![w] = LeaseAt(now)]
                /\ pipe' = [pipe EXCEPT ![w] = StartPipes(pipe[w], Head(chks))]
                /\ inFlightOperations' = [inFlightOperations EXCEPT
                     ![w] = inFlightOperations[w] + Len(Head(chks))]
  /\ UNCHANGED <<dlq, now, ticks, cfgVars, orderVars, faultVars, inserted, shutVars,
                 histVars>>

\* one iteration of poll(): the loop test, processBatch up to the start
\* of the first chunk (leaseMessages, createChunksToProcess, chunk.map)
PollCycle(w) ==
  /\ proc[w] = "running"
  /\ wpc[w] = "loop"
  /\ ~isShuttingDown[w]
  /\ LET ids == leaseMessages(outbox, now, leaseBatchSize)
         chks == createChunksToProcess(ids, processBatchSize)
     IN /\ outbox' = markInProgress(outbox, ids, now)
        /\ chunks' = [chunks EXCEPT ![w] = chks]
        /\ IF chks = <<>>
           THEN UNCHANGED <<wpc, pipe, inFlightOperations, batchLease>>
           ELSE /\ wpc' = [wpc EXCEPT ![w] = "chunk"]
                /\ batchLease' = [batchLease EXCEPT ![w] = LeaseAt(now)]
                /\ pipe' = [pipe EXCEPT ![w] = StartPipes(pipe[w], Head(chks))]
                /\ inFlightOperations' = [inFlightOperations EXCEPT
                     ![w] = inFlightOperations[w] + Len(Head(chks))]
  /\ UNCHANGED <<dlq, now, ticks, cfgVars, orderVars, faultVars, inserted, shutVars,
                 histVars>>

\* variant: only the projection handler is invoked
FetchProjectionOnly(w, id) ==
  /\ proc[w] = "running"
  /\ pipe[w][id].stage = "fetching"
  /\ IF outbox[id] = NoRow
     THEN /\ EndPipe(w, id)
          /\ UNCHANGED <<projCalls, handledBy>>
     ELSE /\ pipe' = [pipe EXCEPT ![w][id] =
               [IdlePipe EXCEPT !.stage = "handling",
                                !.event = outbox[id].event]]
          /\ projCalls' = [projCalls EXCEPT ![id] = projCalls[id] + 1]
          /\ handledBy' = [handledBy EXCEPT ![id] = handledBy[id] \cup {w}]
          /\ UNCHANGED <<wpc, chunks, inFlightOperations, batchLease>>
  /\ UNCHANGED <<dbVars, now, ticks, cfgVars, orderVars, faultVars, inserted, shutVars, extCalls,
                 handlerFailed, staleSeen, succeeded>>

\* processMessage up to the handler calls: fetchOutboxMessage, then both
\* handlers are invoked (Promise.all)
Fetch(w, id) ==
  /\ proc[w] = "running"
  /\ pipe[w][id].stage = "fetching"
  /\ IF outbox[id] = NoRow
     THEN /\ EndPipe(w, id)
          /\ UNCHANGED <<projCalls, extCalls, handledBy>>
     ELSE /\ pipe' = [pipe EXCEPT ![w][id] =
               [IdlePipe EXCEPT !.stage = "handling",
                                !.event = outbox[id].event]]
          /\ projCalls' = [projCalls EXCEPT ![id] = projCalls[id] + 1]
          /\ extCalls' = [extCalls EXCEPT ![id] = extCalls[id] + 1]
          /\ handledBy' = [handledBy EXCEPT ![id] = handledBy[id] \cup {w}]
          /\ UNCHANGED <<wpc, chunks, inFlightOperations, batchLease>>
  /\ UNCHANGED <<dbVars, now, ticks, cfgVars, orderVars, faultVars, inserted, shutVars,
                 handlerFailed, staleSeen, succeeded>>

\* handleIntegrationEvent once both handler promises have settled with
\* pres and eres: the next stage of the pipeline.  A throw rejects
\* Promise.all and with it processMessage; processBatch catches and logs.
handleIntegrationEvent(pres, eres) ==
  IF pres.kind = "throw" \/ eres.kind = "throw" THEN "rejected"
  ELSE IF hasErrors(pres, eres) THEN "failure"
  ELSE "success"

HandlersReturn(w, id, pres, eres) ==
  /\ proc[w] = "running"
  /\ pipe[w][id].stage = "handling"
  /\ IF handleIntegrationEvent(pres, eres) = "rejected"
     THEN EndPipe(w, id)
     ELSE /\ pipe' = [pipe EXCEPT ![w][id] =
               [@ EXCEPT !.stage = handleIntegrationEvent(pres, eres),
                         !.proj = pres, !.ext = eres]]
          /\ UNCHANGED <<wpc, chunks, inFlightOperations, batchLease>>
  /\ handlerFailed' =
       (handlerFailed \/ pres.kind # "success" \/ eres.kind # "success")
  /\ UNCHANGED <<dbVars, now, ticks, cfgVars, orderVars, faultVars, inserted, shutVars,
                 projCalls, extCalls, handledBy, staleSeen, succeeded>>

\* the success path of processMessage
MarkProcessed(w, id) ==
  /\ proc[w] = "running"
  /\ pipe[w][id].stage = "success"
  /\ outbox' = markMessageAsProcessed(outbox, id)
  /\ succeeded' = [succeeded EXCEPT ![id] = @ \/ outbox[id] # NoRow]
  /\ EndPipe(w, id)
  /\ UNCHANGED <<dlq, now, ticks, cfgVars, orderVars, faultVars, inserted, shutVars,
                 projCalls, extCalls, handledBy, handlerFailed, staleSeen>>

\* the failure path of processMessage
FailMessage(w, id, jitter) ==
  /\ proc[w] = "running"
  /\ pipe[w][id].stage = "failure"
  /\ LET r == handleMessageFailure(outbox, dlq, id, pipe[w][id].event,
                 JoinErrors(pipe[w][id].proj, pipe[w][id].ext), now, jitter,
                 maxAttempts)
     IN /\ outbox' = r.outbox
        /\ dlq' = r.dlq
  /\ EndPipe(w, id)
  /\ UNCHANGED <<now, ticks, cfgVars, orderVars, faultVars, inserted, shutVars,
                 histVars>>

Next ==
  \/ \E id \in Ids : Insert(id)
  \/ \E d \in TickSteps : Tick(d)
  \/ \E w \in Workers : PollCycle(w)
  \/ \E w \in Workers, id \in Ids : Fetch(w, id)
  \/ \E w \in Workers, id \in Ids, pres \in ProjectionResults,
        eres \in ExternalResults : HandlersReturn(w, id, pres, eres)
  \/ \E w \in Workers, id \in Ids : MarkProcessed(w, id)
  \/ \E w \in Workers, id \in Ids, jitter \in JitterSet :
        FailMessage(w, id, jitter)

Spec == Init /\ [][Next]_vars

\* ---- liveness specification ----

\* the first instant at which the row can be leased again; 0 when it has
\* no such instant ahead
Deadline(row) ==
  IF row = NoRow THEN 0
  ELSE IF row.status = "pending"
       THEN IF row.nextAvailableAt = Null THEN 0
            ELSE row.nextAvailableAt + 1
       ELSE IF row.leasedAt = Null THEN 0
            ELSE row.leasedAt + StaleLeaseMs + 1

\* time passes, up to the next instant at which a row that cannot be
\* leased now can be leased again (time is unbounded here, and advances
\* only as far as something waits for it)
LiveTick ==
  /\ \E id \in Ids : Deadline(outbox[id]) > now
  /\ LET ds == {Deadline(outbox[id]) : id \in Ids}
         next == CHOOSE d \in ds : d > now /\ \A e \in ds : e > now => d <= e
     IN /\ now' = next
        /\ staleSeen' = (staleSeen \/
             \E id \in Ids : outbox[id] # NoRow /\ IsStale(outbox[id], next))
        /\ batchLease' = [w \in Workers |-> AgeLease(batchLease[w], next)]
  /\ UNCHANGED <<dbVars, ticks, cfgVars, orderVars, faultVars, inserted, pollVars, projCalls,
                 extCalls, handledBy, handlerFailed, succeeded>>

\* eventually-healthy handlers: a call may fail or throw only within the
\* first dispatches of its message
LiveHandlersReturn(w, id, pres, eres) ==
  /\ (pres.kind # "success" \/ eres.kind # "success")
       => projCalls[id] <= LiveFailBudget
  /\ HandlersReturn(w, id, pres, eres)

\* the handler results of the liveness specification: the projection
\* handler succeeds, fails or throws, the external-effect handler succeeds
LiveProjectionResults == {ResSuccess, ResFailure(ErrShort), ResThrow}
LiveExternalResults == {ResSuccess}

LiveJitterSet == {0}

LiveNext ==
  \/ \E id \in Ids : Insert(id)
  \/ LiveTick
  \/ \E w \in Workers : PollCycle(w)
  \/ \E w \in Workers, id \in Ids : Fetch(w, id)
  \/ \E w \in Workers, id \in Ids, pres \in LiveProjectionResults,
        eres \in LiveExternalResults : LiveHandlersReturn(w, id, pres, eres)
  \/ \E w \in Workers, id \in Ids : MarkProcessed(w, id)
  \/ \E w \in Workers, id \in Ids, jitter \in LiveJitterSet :
        FailMessage(w, id, jitter)

\* the workers whose event loop keeps running; any other worker may stop
\* at any await and never resume
FairWorkers == {CHOOSE w \in Workers : \A v \in Workers : w <= v}

\* a step of time or of a worker that keeps running
FairStep ==
  \/ LiveTick
  \/ \E w \in FairWorkers :
       \/ PollCycle(w)
       \/ \E id \in Ids :
            \/ Fetch(w, id)
            \/ \E pres \in LiveProjectionResults,
                  eres \in LiveExternalResults :
                 LiveHandlersReturn(w, id, pres, eres)
            \/ MarkProcessed(w, id)
            \/ \E jitter \in LiveJitterSet : FailMessage(w, id, jitter)

\* the event loop of a running worker runs a continuation that is ready,
\* its handlers settle, and time passes: the system does not stop while
\* one of these steps is possible
LiveFairness == WF_vars(FairStep)

\* the pollers of the liveness specification process one message at a time
LiveInit ==
  /\ Init
  /\ processBatchSize = LiveProcessBatchSize
  /\ leaseBatchSize = LeaseBatchSize

LiveSpec == LiveInit /\ [][LiveNext]_vars /\ LiveFairness

\* ---- leases that are superseded ----

\* handlers that return; time passes as far as a row waits for it (past a
\* stale lease and then past the backoff of a retry)
FenceProjectionResults == {ResSuccess, ResFailure(ErrShort)}
FenceExternalResults == {ResSuccess}
FenceJitterSet == {0}

FenceNext ==
  \/ \E id \in Ids : Insert(id)
  \/ LiveTick
  \/ \E w \in Workers : PollCycle(w)
  \/ \E w \in Workers, id \in Ids : Fetch(w, id)
  \/ \E w \in Workers, id \in Ids, pres \in FenceProjectionResults,
        eres \in FenceExternalResults : HandlersReturn(w, id, pres, eres)
  \/ \E w \in Workers, id \in Ids : MarkProcessed(w, id)
  \/ \E w \in Workers, id \in Ids, jitter \in FenceJitterSet :
        FailMessage(w, id, jitter)

FenceInit ==
  /\ maxAttempts \in 1..MaxMaxAttempts
  /\ processBatchSize = LiveProcessBatchSize
  /\ leaseBatchSize = LeaseBatchSize
  /\ InitState

FenceSpec == FenceInit /\ [][FenceNext]_vars

\* ---- shutdown ----

\* the poller that is shut down; no other worker runs in the shutdown
\* specification
ShutdownWorkers == {CHOOSE w \in Workers : \A v \in Workers : w <= v}

\* the clock advances by the period of the in-flight check or by the
\* shutdown timeout (so that a wait is met before, at and after its limit)
ShutdownTickSteps == {CheckIntervalMs, ShutdownTimeoutMs}

ShutdownProjectionResults == {ResSuccess, ResFailure(ErrShort), ResThrow}
ShutdownExternalResults == {ResSuccess}
ShutdownJitterSet == {0}

\* poller.shutdown()
Shutdown(w) ==
  /\ proc[w] = "running"
  /\ ~isShuttingDown[w]
  /\ isShuttingDown' = [isShuttingDown EXCEPT ![w] = TRUE]
  /\ shutdownAt' = [shutdownAt EXCEPT ![w] = now]
  /\ UNCHANGED <<dbVars, now, ticks, cfgVars, orderVars, faultVars, inserted, wpc, latePoll,
                 waitStart, proc, inFlightOperations, chunks, pipe,
                 batchLease, histVars>>

\* waitForInFlightOperations up to its first await: the position of the
\* call of poll() that entered it
waitForInFlightOperations(w) ==
  IF inFlightOperations[w] > 0 THEN "waiting" ELSE "returned"

\* variant: the loop test is evaluated while processBatch is still running
ExitLoopNoAwait(w) ==
  /\ proc[w] = "running"
  /\ wpc[w] \in {"loop", "chunk"}
  /\ isShuttingDown[w]
  /\ wpc' = [wpc EXCEPT ![w] = waitForInFlightOperations(w)]
  /\ waitStart' = [waitStart EXCEPT ![w]["main"] = now]
  /\ UNCHANGED <<dbVars, now, ticks, cfgVars, orderVars, faultVars, inserted, isShuttingDown,
                 shutdownAt, latePoll, proc, inFlightOperations, chunks, pipe,
                 batchLease, histVars>>

\* the loop test of poll() fails: poll() leaves the loop and enters
\* waitForInFlightOperations
ExitLoop(w) ==
  /\ proc[w] = "running"
  /\ wpc[w] = "loop"
  /\ isShuttingDown[w]
  /\ wpc' = [wpc EXCEPT ![w] = waitForInFlightOperations(w)]
  /\ waitStart' = [waitStart EXCEPT ![w]["main"] = now]
  /\ UNCHANGED <<dbVars, now, ticks, cfgVars, orderVars, faultVars, inserted, isShuttingDown,
                 shutdownAt, latePoll, proc, inFlightOperations, chunks, pipe,
                 batchLease, histVars>>

\* poll() is called again after shutdown(): its loop test fails at once
PollAgain(w) ==
  /\ proc[w] = "running"
  /\ isShuttingDown[w]
  /\ latePoll[w] = "none"
  /\ latePoll' = [latePoll EXCEPT ![w] = waitForInFlightOperations(w)]
  /\ waitStart' = [waitStart EXCEPT ![w]["late"] = now]
  /\ UNCHANGED <<dbVars, now, ticks, cfgVars, orderVars, faultVars, inserted, isShuttingDown,
                 shutdownAt, wpc, proc, inFlightOperations, chunks, pipe,
                 batchLease, histVars>>

\* a check of waitForInFlightOperations that ends the wait: nothing is in
\* flight any more, or the timeout has elapsed
WaitCheck(w, call) ==
  /\ proc[w] = "running"
  /\ (IF call = "main" THEN wpc[w] ELSE latePoll[w]) = "waiting"
  /\ \/ inFlightOperations[w] = 0
     \/ now - waitStart[w][call] > ShutdownTimeoutMs
  /\ IF call = "main"
     THEN wpc' = [wpc EXCEPT ![w] = "returned"] /\ UNCHANGED latePoll
     ELSE latePoll' = [latePoll EXCEPT ![w] = "returned"] /\ UNCHANGED wpc
  /\ UNCHANGED <<dbVars, now, ticks, cfgVars, orderVars, faultVars, inserted, isShuttingDown,
                 shutdownAt, waitStart, proc, inFlightOperations, chunks,
                 pipe, batchLease, histVars>>

\* the worker process receives SIGINT or SIGTERM (or an uncaught exception
\* or unhandled rejection is reported): gracefulShutdown awaits
\* poller.shutdown(), which resolves at once, and calls process.exit(0) in
\* the continuation, a microtask that runs before any other callback
Signal(w) ==
  /\ proc[w] = "running"
  /\ isShuttingDown' = [isShuttingDown EXCEPT ![w] = TRUE]
  /\ shutdownAt' = [shutdownAt EXCEPT
       ![w] = IF shutdownAt[w] = Null THEN now ELSE @]
  /\ proc' = [proc EXCEPT ![w] = "exit0"]
  /\ UNCHANGED <<dbVars, now, ticks, cfgVars, orderVars, faultVars, inserted, wpc, latePoll,
                 waitStart, inFlightOperations, chunks, pipe, batchLease,
                 histVars>>

\* the steps of the poller that is shut down, its handlers reduced to a
\* projection handler that succeeds, fails or throws (poll() never
\* rejects, so the process never exits with code 1)
ShutdownNext ==
  \/ \E id \in Ids : Insert(id)
  \/ \E d \in ShutdownTickSteps : Tick(d)
  \/ \E w \in ShutdownWorkers : PollCycle(w)
  \/ \E w \in ShutdownWorkers, id \in Ids : Fetch(w, id)
  \/ \E w \in ShutdownWorkers, id \in Ids,
        pres \in ShutdownProjectionResults,
        eres \in ShutdownExternalResults : HandlersReturn(w, id, pres, eres)
  \/ \E w \in ShutdownWorkers, id \in Ids : MarkProcessed(w, id)
  \/ \E w \in ShutdownWorkers, id \in Ids, jitter \in ShutdownJitterSet :
        FailMessage(w, id, jitter)
  \/ \E w \in ShutdownWorkers : Shutdown(w)
  \/ \E w \in ShutdownWorkers : ExitLoop(w)
  \/ \E w \in ShutdownWorkers : PollAgain(w)
  \/ \E w \in ShutdownWorkers, call \in Calls : WaitCheck(w, call)
  \/ \E w \in ShutdownWorkers : Signal(w)

\* the poller that is shut down processes its whole batch as one chunk
ShutdownInit ==
  /\ Init
  /\ processBatchSize = ProcessBatchSize
  /\ leaseBatchSize = LeaseBatchSize

ShutdownSpec == ShutdownInit /\ [][ShutdownNext]_vars

\* the poller that is shut down processes its batch in chunks of one
ShutdownChunkInit ==
  /\ Init
  /\ processBatchSize = LiveProcessBatchSize
  /\ leaseBatchSize = LeaseBatchSize

ShutdownChunkSpec == ShutdownChunkInit /\ [][ShutdownNext]_vars

\* a step of the poller itself: its loop, its pipelines, its waits
PollerStep ==
  \E w \in ShutdownWorkers :
    \/ PollCycle(w)
    \/ ExitLoop(w)
    \/ \E call \in Calls : WaitCheck(w, call)
    \/ \E id \in Ids :
         \/ Fetch(w, id)
         \/ \E pres \in ShutdownProjectionResults,
               eres \in ShutdownExternalResults :
              HandlersReturn(w, id, pres, eres)
         \/ MarkProcessed(w, id)
         \/ \E jitter \in ShutdownJitterSet : FailMessage(w, id, jitter)

\* every database call and every handler call of a running process
\* terminates, and the event loop runs the continuations that are ready
ShutdownFairness == WF_vars(PollerStep)

ShutdownLiveSpec == ShutdownSpec /\ ShutdownFairness

\* ---- rows with attempts behind them, ids that are inserted again ----

\* one poller
SeedWorkers == {CHOOSE w \in Workers : \A v \in Workers : w <= v}

\* the attempts a row is inserted with: none, or so many that the next
\* failures reach the cap of the backoff and then the budget
SeedAttempts == {0, SeedMaxAttempts - 2, SeedMaxAttempts - 1}

\* handlers that return, with errors that fit last_error
SeedProjectionResults == {ResSuccess, ResFailure(ErrShort)}
SeedExternalResults == {ResSuccess}

\* createOutboxMessage(db, { id, attempts }): the writer inserts a row under
\* a given id, which may be the id of a message that has left the outbox
InsertSeed(id, a) ==
  /\ outbox[id] = NoRow
  /\ projCalls[id] < SeedCallBudget
  /\ inserted' = inserted \cup {id}
  /\ outbox' = [outbox EXCEPT
       ![id] = [PendingRow(EventOf(id)) EXCEPT !.attempts = a]]
  /\ UNCHANGED <<dlq, now, ticks, cfgVars, orderVars, faultVars, workerVars, histVars>>

SeedNext ==
  \/ \E id \in Ids, a \in SeedAttempts : InsertSeed(id, a)
  \/ \E d \in TickSteps : Tick(d)
  \/ \E w \in SeedWorkers : PollCycle(w)
  \/ \E w \in SeedWorkers, id \in Ids : Fetch(w, id)
  \/ \E w \in SeedWorkers, id \in Ids, pres \in SeedProjectionResults,
        eres \in SeedExternalResults : HandlersReturn(w, id, pres, eres)
  \/ \E w \in SeedWorkers, id \in Ids : MarkProcessed(w, id)
  \/ \E w \in SeedWorkers, id \in Ids, jitter \in JitterSet :
        FailMessage(w, id, jitter)

SeedInit ==
  /\ maxAttempts = SeedMaxAttempts
  /\ processBatchSize = LiveProcessBatchSize
  /\ leaseBatchSize \in 1..LeaseBatchSize
  /\ InitState

SeedSpec == SeedInit /\ [][SeedNext]_vars

\* ---- database errors ----

FaultWorkers == Workers

FaultProjectionResults == {ResSuccess, ResFailure(ErrShort)}
FaultExternalResults == {ResSuccess}
FaultJitterSet == {0}

\* variant: the rows the lease had updated stay updated
LeaseFailsNoRollback(w) ==
  /\ proc[w] = "running"
  /\ wpc[w] = "loop"
  /\ ~isShuttingDown[w]
  /\ LET ids == leaseMessages(outbox, now, leaseBatchSize)
     IN /\ ids # <<>>
        /\ \A id \in SeqToSet(ids) : dbErrors["lease"][id] < MaxDbErrors
        /\ dbErrors' = [dbErrors EXCEPT !["lease"] =
             [id \in Ids |-> IF id \in SeqToSet(ids) THEN @[id] + 1
                                                      ELSE @[id]]]
        /\ outbox' = markInProgress(outbox, ids, now)
  /\ UNCHANGED <<dlq, now, ticks, cfgVars, orderVars, inserted, workerVars, projCalls,
                 extCalls, handledBy, handlerFailed, staleSeen, succeeded>>

\* one iteration of poll() in which the lease transaction raises after it
\* has selected rows: the transaction is rolled back, leaseMessages and
\* processBatch reject, and the catch of poll() logs the error
LeaseFails(w) ==
  /\ proc[w] = "running"
  /\ wpc[w] = "loop"
  /\ ~isShuttingDown[w]
  /\ LET ids == leaseMessages(outbox, now, leaseBatchSize)
     IN /\ ids # <<>>
        /\ \A id \in SeqToSet(ids) : dbErrors["lease"][id] < MaxDbErrors
        /\ dbErrors' = [dbErrors EXCEPT !["lease"] =
             [id \in Ids |-> IF id \in SeqToSet(ids) THEN @[id] + 1
                                                      ELSE @[id]]]
  /\ UNCHANGED <<dbVars, now, ticks, cfgVars, orderVars, inserted, workerVars,
                 projCalls, extCalls, handledBy, handlerFailed, staleSeen,
                 succeeded>>

\* the success path of processMessage when the DELETE raises: the
\* callback's catch logs the error
MarkProcessedFails(w, id) ==
  /\ proc[w] = "running"
  /\ pipe[w][id].stage = "success"
  /\ dbErrors["delete"][id] < MaxDbErrors
  /\ dbErrors' = [dbErrors EXCEPT !["delete"][id] = @ + 1]
  /\ EndPipe(w, id)
  /\ UNCHANGED <<dbVars, now, ticks, cfgVars, orderVars, inserted, shutVars, projCalls,
                 extCalls, handledBy, handlerFailed, staleSeen, succeeded>>

\* variant: the increment of attempts stays although the transaction
\* raised
FailMessageFailsKeepsIncrement(w, id) ==
  /\ proc[w] = "running"
  /\ pipe[w][id].stage = "failure"
  /\ dbErrors["failure"][id] < MaxDbErrors
  /\ dbErrors' = [dbErrors EXCEPT !["failure"][id] = @ + 1]
  /\ outbox' = [outbox EXCEPT ![id] =
       IF @ = NoRow THEN @ ELSE [@ EXCEPT !.attempts = @ + 1]]
  /\ EndPipe(w, id)
  /\ UNCHANGED <<dlq, now, ticks, cfgVars, orderVars, inserted, shutVars, projCalls,
                 extCalls, handledBy, handlerFailed, staleSeen, succeeded>>

\* the failure path of processMessage when a statement of the transaction
\* of handleMessageFailure raises: the transaction is rolled back, the
\* callback's catch logs the error
FailMessageFails(w, id) ==
  /\ proc[w] = "running"
  /\ pipe[w][id].stage = "failure"
  /\ dbErrors["failure"][id] < MaxDbErrors
  /\ dbErrors' = [dbErrors EXCEPT !["failure"][id] = @ + 1]
  /\ EndPipe(w, id)
  /\ UNCHANGED <<dbVars, now, ticks, cfgVars, orderVars, inserted, shutVars, projCalls,
                 extCalls, handledBy, handlerFailed, staleSeen, succeeded>>

FaultNext ==
  \/ \E id \in Ids : Insert(id)
  \/ \E d \in TickSteps : Tick(d)
  \/ \E w \in FaultWorkers : PollCycle(w)
  \/ \E w \in FaultWorkers : LeaseFails(w)
  \/ \E w \in FaultWorkers, id \in Ids : Fetch(w, id)
  \/ \E w \in FaultWorkers, id \in Ids, pres \in FaultProjectionResults,
        eres \in FaultExternalResults : HandlersReturn(w, id, pres, eres)
  \/ \E w \in FaultWorkers, id \in Ids : MarkProcessed(w, id)
  \/ \E w \in FaultWorkers, id \in Ids : MarkProcessedFails(w, id)
  \/ \E w \in FaultWorkers, id \in Ids, jitter \in FaultJitterSet :
        FailMessage(w, id, jitter)
  \/ \E w \in FaultWorkers, id \in Ids : FailMessageFails(w, id)

FaultInit ==
  /\ maxAttempts \in 1..MaxMaxAttempts
  /\ processBatchSize = LiveProcessBatchSize
  /\ leaseBatchSize = LeaseBatchSize
  /\ InitState

FaultSpec == FaultInit /\ [][FaultNext]_vars

\* ---- properties ----

ChunkIds(chs) == UNION {SeqToSet(chs[i]) : i \in 1..Len(chs)}

\* this step is a lease of worker w that returns id
LeaseReturns(w, id) ==
  /\ wpc[w] = "loop"
  /\ id \in ChunkIds(chunks'[w])

\* this step ends the pipeline of worker w for id from the given stage
PipeLeaves(w, id, stage) ==
  /\ pipe[w][id].stage = stage
  /\ pipe'[w][id].stage # stage

\* this step moves id from the outbox to the dead-letter table
DlqTransfer(id) ==
  /\ outbox[id] # NoRow
  /\ outbox'[id] = NoRow
  /\ id \notin DlqIds(dlq)
  /\ id \in DlqIds(dlq')

\* C1: lease disjointness.  An id a lease returns is, at that lease,
\* not under an unresolved lease: its row is pending (never leased, or the
\* last lease was resolved by a reschedule) or its lease is stale
\* (leased_at older than now - 5 minutes).  A deleted or dead-lettered row
\* is never returned.
C1_LeaseDisjoint ==
  [][\A w \in Workers, id \in Ids :
       LeaseReturns(w, id) =>
         \/ outbox[id].status = "pending"
         \/ /\ outbox[id].status = "in_progress"
            /\ outbox[id].leasedAt < now - StaleLeaseMs]_vars

\* two pipelines run for one id, the later under a lease taken after the
\* earlier had gone stale
C1_Witness ==
  \E id \in Ids, w1 \in Workers, w2 \in Workers :
    /\ w1 # w2
    /\ pipe[w1][id].stage = "handling"
    /\ pipe[w2][id].stage = "handling"

\* C2: exactly-once dispatch when healthy.  While every handler call so
\* far has returned success and no lease has gone stale, each handler has
\* been invoked at most once per message and by one worker only, and a
\* message that has left the outbox was deleted after exactly one
\* invocation of each handler.
C2_ExactlyOnceWhenHealthy ==
  (~handlerFailed /\ ~staleSeen) =>
    \A id \in Ids :
      /\ projCalls[id] <= 1
      /\ extCalls[id] <= 1
      /\ Cardinality(handledBy[id]) <= 1
      /\ (id \in inserted /\ outbox[id] = NoRow) =>
           /\ succeeded[id]
           /\ projCalls[id] = 1
           /\ extCalls[id] = 1

\* a healthy run in which every message was dispatched and the two
\* workers each processed one
C2_Witness ==
  /\ ~handlerFailed /\ ~staleSeen
  /\ inserted = Ids
  /\ \A id \in Ids : succeeded[id]
  /\ \E i \in Ids, j \in Ids : handledBy[i] # handledBy[j]

\* C3: no loss.  With one worker that keeps running and handlers that
\* eventually return success, every inserted message eventually leaves the
\* outbox; and a message that has left it was deleted after both handlers
\* returned success for it, or is in the dead-letter table.
C3_NoLoss ==
  \A id \in Ids :
    (id \in inserted) ~>
      (outbox[id] = NoRow /\ (succeeded[id] \/ id \in DlqIds(dlq)))

\* every message has left the outbox, one by the success path after a
\* failed attempt or a reclaimed lease, one to the dead-letter table
C3_Witness ==
  /\ inserted = Ids
  /\ \A id \in Ids : outbox[id] = NoRow
  /\ \E id \in Ids : succeeded[id] /\ projCalls[id] >= 2
  /\ \E id \in Ids : id \in DlqIds(dlq)

\* C4: visible effects.  A step that removes a row from the outbox is a
\* DLQ transfer, or it ends a pipeline whose two handlers were invoked for
\* the row and both returned success in that attempt; a pipeline in which
\* a handler reported failure removes the row only by a DLQ transfer.
C4_VisibleEffects ==
  [][\A id \in Ids :
       /\ (outbox[id] # NoRow /\ outbox'[id] = NoRow /\ ~DlqTransfer(id)) =>
            \E w \in Workers :
              /\ PipeLeaves(w, id, "success")
              /\ pipe[w][id].proj.kind = "success"
              /\ pipe[w][id].ext.kind = "success"
              /\ projCalls[id] >= 1 /\ extCalls[id] >= 1
              /\ dlq' = dlq
       /\ \A w \in Workers :
            (/\ pipe[w][id].stage # "idle"
             /\ pipe'[w][id].stage = "idle"
             /\ \/ pipe[w][id].proj.kind = "failure"
                \/ pipe[w][id].ext.kind = "failure"
             /\ outbox[id] # NoRow
             /\ outbox'[id] = NoRow) => DlqTransfer(id)]_vars

\* a message was deleted by the success path after an earlier failure
C4_Witness ==
  \E id \in Ids : succeeded[id] /\ projCalls[id] >= 2

\* C5: an id is never in the outbox and in the dead-letter table at once,
\* and an inserted id that is in neither was deleted by the success path
\* (the transfer is one transaction: no state lies between its delete and
\* its insert).
C5_OneTable ==
  \A id \in Ids :
    /\ ~(outbox[id] # NoRow /\ id \in DlqIds(dlq))
    /\ (id \in inserted /\ outbox[id] = NoRow /\ id \notin DlqIds(dlq))
         => succeeded[id]

\* a message has been transferred to the dead-letter table
C5_Witness ==
  \E id \in Ids : id \in DlqIds(dlq) /\ outbox[id] = NoRow

\* C6: the dead-letter table holds at most one row per id.
C6_NoDuplicateDlq ==
  \A id \in Ids : DlqCount(dlq, id) <= 1

\* a second worker is in the failure protocol of a message that a first
\* worker has already dead-lettered
C6_Witness ==
  \E id \in Ids, w \in Workers :
    /\ id \in DlqIds(dlq)
    /\ pipe[w][id].stage = "failure"

\* C7 (as claimed): a failure protocol that finds the row with
\* attempts + 1 >= maxAttempts removes it from the outbox and leaves a
\* dead-letter row with the same id, the row's event and a last_error
\* holding the handlers' error strings.
C7_BudgetExhaustion ==
  [][\A w \in Workers, id \in Ids :
       (/\ PipeLeaves(w, id, "failure")
        /\ outbox[id] # NoRow
        /\ outbox[id].attempts + 1 >= maxAttempts) =>
         /\ outbox'[id] = NoRow
         /\ \E r \in BagToSet(dlq') :
              /\ r.id = id
              /\ r.event = outbox[id].event
              /\ r.lastError.parts =
                   <<ErrorOf(pipe[w][id].proj).text,
                     ErrorOf(pipe[w][id].ext).text>>]_vars

C9_ThrowIsFailure ==
  [][\A w \in Workers, id \in Ids :
       (/\ pipe[w][id].stage = "handling"
        /\ pipe'[w][id].stage = "idle"
        /\ outbox[id] # NoRow) =>
         \/ DlqTransfer(id)
         \/ /\ outbox'[id] # NoRow
            /\ outbox'[id].status = "pending"
            /\ outbox'[id].attempts = outbox[id].attempts + 1]_vars

\* C10: eligibility respect.  A lease returns no pending row whose
\* next_available_at is later than now and no in_progress row whose
\* leased_at is later than now - 5 minutes.
C10_EligibilityRespect ==
  [][\A w \in Workers, id \in Ids :
       LeaseReturns(w, id) =>
         /\ ~(/\ outbox[id].status = "pending"
              /\ outbox[id].nextAvailableAt # Null
              /\ outbox[id].nextAvailableAt > now)
         /\ ~(/\ outbox[id].status = "in_progress"
              /\ outbox[id].leasedAt > now - StaleLeaseMs)]_vars

\* a worker has leased another row at an instant at which a row
\* rescheduled earlier was not yet available, and did not get that row
C10_Witness ==
  \E id \in Ids, j \in Ids, w \in Workers :
    /\ outbox[id].status = "pending"
    /\ outbox[id].nextAvailableAt > now
    /\ outbox[id].nextAvailableAt < now + 2 * BaseDelayMs
    /\ j \in ChunkIds(chunks[w])
    /\ outbox[j].status = "in_progress"
    /\ outbox[j].leasedAt = now

\* C11: stale-lease recovery.  With one worker that keeps running, a row
\* that sits in the outbox as in_progress with a leased_at older than five
\* minutes (its worker stopped, or its pipeline was rejected) is eventually
\* disposed of: it leaves the outbox, deleted after both handlers returned
\* success or moved to the dead-letter table.
C11_StaleLeaseRecovery ==
  \A id \in Ids :
    (/\ outbox[id] # NoRow
     /\ outbox[id].status = "in_progress"
     /\ outbox[id].leasedAt < now - StaleLeaseMs) ~>
      (outbox[id] = NoRow /\ (succeeded[id] \/ id \in DlqIds(dlq)))

\* a lease went stale although no handler ever failed, the row was leased
\* again, dispatched a second time and deleted by the success path
C11_Witness ==
  \E id \in Ids :
    /\ staleSeen
    /\ ~handlerFailed
    /\ projCalls[id] >= 2
    /\ succeeded[id]

\* worker v has a pipeline for id that runs, or one that its running batch
\* has still to start
Holds(v, id) ==
  \/ pipe[v][id].stage # "idle"
  \/ /\ chunks[v] # <<>>
     /\ id \in ChunkIds(Tail(chunks[v]))

\* C12 (as claimed): serialized attempts.  When a lease returns an id, every
\* pipeline another worker runs (or has still to start) for that id belongs
\* to a lease that is by then older than five minutes; so two pipelines
\* never run for one message under leases less than five minutes apart.
\* The code does not keep this: a worker whose lease was reclaimed runs its
\* failure protocol on the row the reclaiming worker holds and reschedules
\* it to pending, and the next lease returns it while the reclaiming
\* worker's pipeline still runs under a lease a few seconds old.
C12_SerializedAttempts ==
  [][\A w \in Workers, v \in Workers, id \in Ids :
       (w # v /\ LeaseReturns(w, id) /\ Holds(v, id)) =>
         batchLease[v].stale]_vars

\* C13: attempts bound.  Rows are inserted with attempts = 0 and all
\* workers share maxAttempts >= 1: every outbox row has attempts <=
\* maxAttempts, and indeed attempts < maxAttempts, since the failure
\* protocol never writes a value >= maxAttempts to the outbox (it transfers
\* the row to the dead-letter table instead).
C13_AttemptsBound ==
  \A id \in Ids :
    outbox[id] # NoRow =>
      /\ outbox[id].attempts <= maxAttempts
      /\ outbox[id].attempts < maxAttempts

\* one row has used all but its last attempt and another has been
\* transferred to the dead-letter table
C13_Witness ==
  \E id \in Ids, j \in Ids :
    /\ outbox[id] # NoRow
    /\ outbox[id].attempts >= 1
    /\ outbox[id].attempts = maxAttempts - 1
    /\ j \in DlqIds(dlq)

\* C14: monotonic attempts.  No step of any worker (lease, retry
\* scheduling, stale reclamation) decreases the attempts of a row that
\* stays in the outbox.
C14_MonotonicAttempts ==
  [][\A id \in Ids :
       (outbox[id] # NoRow /\ outbox'[id] # NoRow) =>
         outbox'[id].attempts >= outbox[id].attempts]_vars

\* a row that was rescheduled after a failure is leased again
C14_Witness ==
  \E id \in Ids :
    /\ outbox[id] # NoRow
    /\ outbox[id].status = "in_progress"
    /\ outbox[id].attempts >= 1

\* C15: status/lease consistency.  Every in_progress row has a non-null
\* leased_at and every pending row has leased_at = null.
C15_StatusLeaseConsistency ==
  \A id \in Ids :
    outbox[id] # NoRow =>
      /\ outbox[id].status \in {"pending", "in_progress"}
      /\ outbox[id].status = "in_progress" => outbox[id].leasedAt # Null
      /\ outbox[id].status = "pending" => outbox[id].leasedAt = Null

\* a row rescheduled by the failure protocol (pending again, its lease
\* cleared) next to a row under a lease
C15_Witness ==
  \E id \in Ids, j \in Ids :
    /\ outbox[id] # NoRow /\ outbox[j] # NoRow
    /\ outbox[id].status = "pending"
    /\ outbox[id].attempts >= 1
    /\ outbox[id].leasedAt = Null
    /\ outbox[j].status = "in_progress"
    /\ outbox[j].leasedAt # Null

\* worker w awaits nothing but handler calls: a pipeline is in its
\* handlers and none is in a database call
AwaitsOnlyHandlers(w) ==
  /\ \E id \in Ids : pipe[w][id].stage = "handling"
  /\ \A id \in Ids : pipe[w][id].stage \in {"idle", "handling"}

\* C16 (as claimed): bounded shutdown wait.  Once shutdownTimeoutMs has
\* elapsed since shutdown() was called, a poller that waits only for
\* handler calls has returned from poll(): a handler call that does not
\* complete does not keep poll() from returning.
C16_BoundedShutdownWait ==
  \A w \in Workers :
    (/\ proc[w] = "running"
     /\ isShuttingDown[w]
     /\ now - shutdownAt[w] > ShutdownTimeoutMs
     /\ AwaitsOnlyHandlers(w)) => wpc[w] = "returned"

\* C17: shutdown stops leasing.  Once shutdown() has been called on a
\* worker, no step is a lease of that worker, neither in the running
\* poll() nor in a later call of poll(): its batch gets no new id, no row
\* of the outbox is put under a lease, and once poll() has returned no
\* pipeline of the worker starts, whatever is inserted afterwards.
C17_ShutdownStopsLeasing ==
  [][\A w \in Workers :
       /\ isShuttingDown[w] =>
            /\ \A id \in Ids : ~LeaseReturns(w, id)
            /\ ChunkIds(chunks'[w]) \subseteq ChunkIds(chunks[w])
            /\ \A id \in Ids :
                 (outbox[id] # NoRow /\ outbox'[id] # NoRow) =>
                   (outbox'[id].leasedAt = outbox[id].leasedAt
                    \/ outbox'[id].leasedAt = Null)
       /\ wpc[w] = "returned" =>
            /\ wpc'[w] = "returned"
            /\ \A id \in Ids : pipe'[w][id].stage = "idle"]_vars

\* poll() has returned after a shutdown, a later call of poll() has
\* returned as well, and a message inserted in the outbox is still pending
\* and was never dispatched, while another was processed before
C17_Witness ==
  \E w \in Workers, id \in Ids, j \in Ids :
    /\ wpc[w] = "returned"
    /\ latePoll[w] = "returned"
    /\ proc[w] = "running"
    /\ outbox[id] # NoRow
    /\ outbox[id].status = "pending"
    /\ projCalls[id] = 0
    /\ succeeded[j]

\* C18: graceful stop terminates.  When every handler call and database
\* call terminates, after shutdown() has been called poll() eventually
\* returns (unless the process exits first), and whenever poll() has
\* returned, every pipeline the worker started has completed:
\* inFlightOperations = 0 and no pipeline is left.
C18_GracefulStopTerminates ==
  /\ [](\A w \in Workers :
          wpc[w] = "returned" =>
            /\ inFlightOperations[w] = 0
            /\ \A id \in Ids : pipe[w][id].stage = "idle")
  /\ \A w \in Workers :
       isShuttingDown[w] ~> (wpc[w] = "returned" \/ proc[w] # "running")

\* poll() has returned after a shutdown that was requested while a
\* pipeline was running, and that pipeline's message was processed
C18_Witness ==
  \E w \in Workers, id \in Ids :
    /\ wpc[w] = "returned"
    /\ proc[w] = "running"
    /\ succeeded[id]
    /\ shutdownAt[w] # Null
    /\ shutdownAt[w] < now
    /\ inserted = Ids
    /\ \A j \in Ids : outbox[j] = NoRow

\* C19 (as claimed): the worker process exits with code 0 only after its
\* in-flight pipelines have completed or the shutdown timeout has elapsed
\* since the shutdown was requested.
C19_ExitAfterDrain ==
  [][\A w \in Workers :
       (proc[w] = "running" /\ proc'[w] = "exit0") =>
         \/ inFlightOperations[w] = 0
         \/ /\ shutdownAt[w] # Null
            /\ now - shutdownAt[w] > ShutdownTimeoutMs]_vars

\* this step ends a pipeline of worker w for id in failure: a handler
\* threw (the pipeline ends in its handlers) or the failure protocol ran,
\* its transaction committed or rolled back on a database error
PipeFails(w, id) ==
  /\ pipe[w][id].stage \in {"handling", "failure"}
  /\ pipe'[w][id].stage = "idle"

\* C20: error containment.  When a pipeline ends in failure, poll() goes
\* on (the process runs, the poller is in its loop or in its batch and is
\* not shut down by it), the other pipelines of the chunk are left as they
\* are, and the batch continues: the next chunk's pipelines start when the
\* chunk is finished, and after the last chunk the poller is back at its
\* loop test.
C20_ErrorContainment ==
  [][\A w \in Workers, id \in Ids :
       PipeFails(w, id) =>
         /\ proc'[w] = "running"
         /\ isShuttingDown'[w] = isShuttingDown[w]
         /\ wpc'[w] \in {"loop", "chunk"}
         /\ \A j \in Ids \ {id} :
              pipe[w][j].stage # "idle" => pipe'[w][j] = pipe[w][j]
         /\ (\E j \in Ids \ {id} : pipe[w][j].stage # "idle") =>
              (wpc'[w] = "chunk" /\ chunks'[w] = chunks[w])
         /\ ((\A j \in Ids \ {id} : pipe[w][j].stage = "idle")
             /\ Tail(chunks[w]) # <<>>) =>
              /\ wpc'[w] = "chunk"
              /\ chunks'[w] = Tail(chunks[w])
              /\ \A j \in SeqToSet(Head(Tail(chunks[w]))) :
                   pipe'[w][j].stage = "fetching"
         /\ ((\A j \in Ids \ {id} : pipe[w][j].stage = "idle")
             /\ Tail(chunks[w]) = <<>>) => wpc'[w] = "loop"]_vars

\* the pipeline of the first chunk ended without disposing of its row (a
\* handler threw, or the dead-letter insert failed) and the pipeline of the
\* next chunk of the same batch has started
C20_Witness ==
  \E w \in Workers, id \in Ids, j \in Ids :
    /\ id # j
    /\ processBatchSize = 1
    /\ handledBy[id] = {w}
    /\ pipe[w][id].stage = "idle"
    /\ outbox[id] # NoRow
    /\ outbox[id].status = "in_progress"
    /\ outbox[id].leasedAt = batchLease[w].at
    /\ pipe[w][j].stage = "fetching"

\* C21 (as claimed): always-failing message.  While no lease has gone
\* stale, the handler pair of a message has been invoked at most
\* maxAttempts times and exactly maxAttempts times once the message is in
\* the dead-letter table; and the attempt that is the maxAttempts-th
\* invocation and ends in the failure protocol (every earlier attempt
\* having ended there too, as no lease went stale) leaves the message in
\* the dead-letter table and out of the outbox.
C21_AlwaysFailingMessage ==
  /\ [](~staleSeen =>
          \A id \in Ids :
            /\ projCalls[id] <= maxAttempts
            /\ id \in DlqIds(dlq) => projCalls[id] = maxAttempts)
  /\ [][\A w \in Workers, id \in Ids :
          (/\ ~staleSeen
           /\ PipeLeaves(w, id, "failure")
           /\ projCalls[id] = maxAttempts) =>
            /\ id \in DlqIds(dlq')
            /\ outbox'[id] = NoRow]_vars

RECURSIVE Flatten(_)
Flatten(chs) == IF chs = <<>> THEN <<>> ELSE Head(chs) \o Flatten(Tail(chs))

\* the pipelines of worker w that run
Running(w) == {id \in Ids : pipe[w][id].stage # "idle"}

C23_NoLeaseWhenDisabled ==
  /\ [](leaseBatchSize <= 0 =>
          /\ \A id \in Ids :
                /\ outbox[id] \in {NoRow, PendingRow(EventOf(id))}
                /\ id \in inserted => outbox[id] = PendingRow(EventOf(id))
                /\ projCalls[id] = 0
                /\ extCalls[id] = 0
                /\ handledBy[id] = {}
          /\ dlq = EmptyBag
          /\ \A w \in Workers :
                /\ chunks[w] = <<>>
                /\ wpc[w] = "loop"
                /\ inFlightOperations[w] = 0
                /\ \A id \in Ids : pipe[w][id] = IdlePipe)
  /\ [][leaseBatchSize <= 0 =>
          (outbox' = outbox \/ \E id \in Ids : Insert(id))]_vars

\* a poller with leaseBatchSize <= 0 faces rows that have been eligible
\* for longer than the stale-lease cutoff
C23_Witness ==
  /\ leaseBatchSize <= 0
  /\ inserted = Ids
  /\ now > StaleLeaseMs
  /\ \A id \in Ids : outbox[id] = PendingRow(EventOf(id))

\* C24: zero or negative processBatchSize.  With processBatchSize <= 0 a
\* poll cycle leases rows but builds no chunk: no pipeline starts, no
\* handler is invoked, no row is deleted or dead-lettered, attempts stay as
\* inserted, the poll loop stays in its loop (no throw), and a row that is
\* in_progress keeps its leased_at until a lease reclaims it as stale.
C24_NoProcessingWhenDisabled ==
  /\ [](processBatchSize <= 0 =>
          /\ \A id \in Ids :
                /\ id \in inserted =>
                      /\ outbox[id] # NoRow
                      /\ outbox[id].attempts = 0
                      /\ outbox[id].event = EventOf(id)
                      /\ outbox[id].status \in {"pending", "in_progress"}
                /\ projCalls[id] = 0
                /\ extCalls[id] = 0
          /\ dlq = EmptyBag
          /\ \A w \in Workers :
                /\ chunks[w] = <<>>
                /\ wpc[w] = "loop"
                /\ proc[w] = "running"
                /\ inFlightOperations[w] = 0
                /\ \A id \in Ids : pipe[w][id] = IdlePipe)
  /\ [][processBatchSize <= 0 =>
          \A id \in Ids :
            /\ (outbox[id] # NoRow /\ outbox[id].status = "in_progress") =>
                  \/ outbox'[id] = outbox[id]
                  \/ /\ outbox[id].leasedAt < now - StaleLeaseMs
                     /\ outbox'[id] = [outbox[id] EXCEPT !.leasedAt = now]
            /\ (outbox[id] # NoRow /\ outbox[id].status = "pending"
                  /\ outbox'[id] # outbox[id]) =>
                  /\ leaseBatchSize > 0
                  /\ outbox'[id] = [outbox[id] EXCEPT
                        !.status = "in_progress", !.leasedAt = now]]_vars

\* with processBatchSize <= 0 a row was leased, left alone, and leased
\* again once its lease was stale; it was never handled
C24_Witness ==
  /\ processBatchSize <= 0
  /\ \E id \in Ids :
       /\ outbox[id] # NoRow
       /\ outbox[id].status = "in_progress"
       /\ outbox[id].leasedAt > StaleLeaseMs
       /\ outbox[id].attempts = 0
       /\ projCalls[id] = 0

\* C28: race with a peer.  A pipeline that finds the row absent at its
\* fetch invokes no handler and ends (the process keeps running); a failure
\* protocol that finds the row absent at its re-select commits with both
\* tables as they were; the delete of the success path on an absent row
\* changes nothing.
C28_AbsentRowIsNoOp ==
  [][\A w \in Workers, id \in Ids :
       (/\ outbox[id] = NoRow
        /\ \/ PipeLeaves(w, id, "fetching")
           \/ PipeLeaves(w, id, "failure")
           \/ PipeLeaves(w, id, "success")) =>
         /\ pipe'[w][id] = IdlePipe
         /\ projCalls' = projCalls
         /\ extCalls' = extCalls
         /\ outbox' = outbox
         /\ dlq' = dlq
         /\ proc' = proc
         /\ isShuttingDown' = isShuttingDown]_vars

\* a pipeline is about to run the failure protocol for a message a peer
\* has processed and deleted in the meantime
C28_Witness ==
  \E w \in Workers, id \in Ids :
    /\ pipe[w][id].stage = "failure"
    /\ outbox[id] = NoRow
    /\ succeeded[id]
    /\ id \notin DlqIds(dlq)

\* C25: backoff bounds.  When a failure protocol schedules a retry with new
\* attempt count a, the delay from the failure time to next_available_at
\* is at least min(1000 ms * 2^a, 300000 ms) and at most that plus 1000 ms;
\* the lower bound does not decrease with a, and the delay never exceeds
\* 301000 ms.
C25_BackoffBounds ==
  [][\A w \in Workers, id \in Ids :
       (/\ PipeLeaves(w, id, "failure")
        /\ outbox[id] # NoRow
        /\ outbox'[id] # NoRow
        /\ outbox'[id] # outbox[id]) =>
         LET a == outbox'[id].attempts
             d == outbox'[id].nextAvailableAt - now
             lo == Min(1000 * Pow2(a), 300000)
         IN /\ a = outbox[id].attempts + 1
            /\ lo <= d
            /\ d <= lo + 1000
            /\ d <= 300000 + 1000
            /\ Min(1000 * Pow2(a - 1), 300000) <= lo]_vars

\* a retry was scheduled at an attempt count whose exponential delay
\* exceeds the cap, with the largest jitter
C25_Witness ==
  \E id \in Ids :
    /\ outbox[id] # NoRow
    /\ outbox[id].status = "pending"
    /\ outbox[id].attempts >= 9
    /\ outbox[id].nextAvailableAt = now + MaxDelayMs + (JitterRangeMs - 1)

\* C26: DLQ idempotence law.  The DLQ insert for an id that already has a
\* dead-letter row returns the table as it was, whatever failed_at and
\* last_error the new row carries; a failure protocol that exhausts the
\* budget of a row whose id is already dead-lettered commits (the outbox
\* row is deleted) and leaves the dead-letter table unchanged.
C26_DlqIdempotence ==
  /\ [](\A r \in BagToSet(dlq), e \in {ErrShort, ErrNone} :
          LET row == [id |-> r.id, failedAt |-> now, event |-> r.event,
                      lastError |-> JoinErrors(ResFailure(e), ResSuccess)]
          IN /\ DlqInsert(dlq, row) = dlq
             /\ DlqInsert(DlqInsert(dlq, r), r) = DlqInsert(dlq, r)
             /\ CopiesIn(r, dlq) = 1)
  /\ [][\A w \in Workers, id \in Ids :
          (/\ PipeLeaves(w, id, "failure")
           /\ outbox[id] # NoRow
           /\ outbox[id].attempts + 1 >= maxAttempts
           /\ id \in DlqIds(dlq)) =>
            /\ dlq' = dlq
            /\ outbox'[id] = NoRow
            /\ pipe'[w][id] = IdlePipe
            /\ proc' = proc]_vars

\* an id was dead-lettered at time 0, inserted again, and its second
\* processing attempt, at a later time, ended in the DLQ move as well
C26_Witness ==
  \E id \in Ids :
    /\ \E r \in BagToSet(dlq) : r.id = id /\ r.failedAt = 0
    /\ now > 0
    /\ ticks >= 1
    /\ projCalls[id] = 2
    /\ outbox[id] = NoRow
    /\ ~succeeded[id]
    /\ \A w \in Workers : pipe[w][id] = IdlePipe

\* C27 (as claimed): no lost or duplicated increment.  Every processing
\* attempt that fails while the row is present either raises the row's
\* attempts by exactly 1, from the value the previous protocol committed,
\* or performs the dead-letter transfer; a failure protocol that finds the
\* row absent changes nothing; and no id is dead-lettered twice.
C27_NoLostIncrement ==
  /\ [](\A r \in BagToSet(dlq) :
          /\ CopiesIn(r, dlq) = 1
          /\ \A q \in BagToSet(dlq) : q.id = r.id => q = r)
  /\ [][\A w \in Workers, id \in Ids :
          /\ (PipeFails(w, id) /\ outbox[id] # NoRow) =>
                \/ DlqTransfer(id)
                \/ /\ outbox'[id] # NoRow
                   /\ outbox'[id].attempts = outbox[id].attempts + 1
                   /\ dlq' = dlq
          /\ (PipeFails(w, id) /\ outbox[id] = NoRow) =>
                /\ outbox' = outbox
                /\ dlq' = dlq]_vars

\* C29: lease result.  The ids a lease returns are at most leaseBatchSize,
\* in ascending order, all eligible, and the smallest eligible ones: an
\* eligible row that is not returned has a larger id than every returned
\* one, and is left out only when the lease is full.  The lease moves
\* exactly the returned rows, hence at most leaseBatchSize rows, to
\* in_progress.
C29_LeaseResult ==
  [][\A w \in Workers :
       (wpc[w] = "loop" /\ chunks'[w] # <<>>) =>
         LET ids == Flatten(chunks'[w])
             moved == {id \in Ids : outbox'[id] # outbox[id]}
         IN /\ Len(ids) <= leaseBatchSize
            /\ \A i, j \in 1..Len(ids) : i < j => ids[i] < ids[j]
            /\ \A i \in 1..Len(ids) : Eligible(outbox[ids[i]], now)
            /\ \A id \in Ids :
                  (Eligible(outbox[id], now) /\ id \notin SeqToSet(ids)) =>
                    /\ Len(ids) = leaseBatchSize
                    /\ \A i \in 1..Len(ids) : ids[i] < id
                    /\ outbox'[id] = outbox[id]
            /\ moved = SeqToSet(ids)
            /\ Cardinality(moved) <= leaseBatchSize
            /\ \A id \in moved :
                  /\ outbox'[id].status = "in_progress"
                  /\ outbox'[id].leasedAt = now]_vars

\* a lease of size 1 has just taken the smaller of two eligible rows and
\* left the larger one pending
C29_Witness ==
  \E w \in Workers, i, j \in Ids :
    /\ leaseBatchSize = 1
    /\ i < j
    /\ Flatten(chunks[w]) = <<i>>
    /\ pipe[w][i].stage = "fetching"
    /\ outbox[i] # NoRow
    /\ outbox[i].status = "in_progress"
    /\ outbox[i].leasedAt = now
    /\ outbox[j] # NoRow
    /\ Eligible(outbox[j], now)

\* C30: both handlers every attempt.  Every pipeline that fetches a row
\* invokes the projection handler and the external-effect handler once
\* each, with the event of that row, and awaits both; no other step invokes
\* a handler, so the two handlers have been invoked equally often for every
\* message.  This holds for the retry that follows an attempt in which
\* exactly one handler failed as for any other attempt.
C30_BothHandlersEveryAttempt ==
  /\ [](\A id \in Ids :
          /\ projCalls[id] = extCalls[id]
          /\ \A w \in Workers :
                pipe[w][id].stage = "handling" =>
                  pipe[w][id].event = EventOf(id))
  /\ [][\A id \in Ids :
          /\ \A w \in Workers :
                (PipeLeaves(w, id, "fetching") /\ outbox[id] # NoRow) =>
                  /\ projCalls'[id] = projCalls[id] + 1
                  /\ extCalls'[id] = extCalls[id] + 1
                  /\ pipe'[w][id].stage = "handling"
                  /\ pipe'[w][id].event = outbox[id].event
          /\ (projCalls'[id] # projCalls[id] \/ extCalls'[id] # extCalls[id])
                => \E w \in Workers :
                     PipeLeaves(w, id, "fetching") /\ outbox[id] # NoRow]_vars

\* the retry of a message is under way, both handlers invoked for the
\* second time, after an attempt in which exactly one of them failed (the
\* row's attempts value was written by a failure protocol, and where the
\* external-effect handler always succeeds the projection handler alone
\* had failed)
C30_Witness ==
  \E w \in Workers, id \in Ids :
    /\ pipe[w][id].stage = "handling"
    /\ ~staleSeen
    /\ outbox[id] # NoRow
    /\ outbox[id].attempts = 1
    /\ projCalls[id] = 2
    /\ extCalls[id] = 2

\* C31: lease transaction failure.  When the lease transaction raises, no
\* outbox row has changed (status and leased_at are as before), no chunk is
\* built and no pipeline started, the worker's process runs on and its
\* poller is back at the loop test, not shut down, free to lease in the
\* next cycle.
C31_LeaseFailureRollsBack ==
  [][(dbErrors'["lease"] # dbErrors["lease"]) =>
       /\ outbox' = outbox
       /\ dlq' = dlq
       /\ chunks' = chunks
       /\ pipe' = pipe
       /\ inFlightOperations' = inFlightOperations
       /\ projCalls' = projCalls
       /\ extCalls' = extCalls
       /\ proc' = proc
       /\ isShuttingDown' = isShuttingDown
       /\ wpc' = wpc
       /\ \E w \in Workers :
            /\ wpc'[w] = "loop"
            /\ proc'[w] = "running"
            /\ chunks'[w] = <<>>
            /\ \A id \in Ids : pipe'[w][id] = IdlePipe]_vars

\* a row whose lease was rolled back while it was pending has been leased
\* by a later cycle and its pipeline has started
C31_Witness ==
  \E w \in Workers, id \in Ids :
    /\ dbErrors["lease"][id] >= 1
    /\ ~staleSeen
    /\ outbox[id] # NoRow
    /\ outbox[id].status = "in_progress"
    /\ outbox[id].attempts = 0
    /\ pipe[w][id].stage = "fetching"
    /\ projCalls[id] = 0

\* C32: database failure during disposition.  When the DELETE of the
\* success path or the transaction of the failure protocol raises, both
\* tables are as before (a row that was in_progress is in_progress with the
\* same attempts and leased_at), the pipeline ends and the process runs on;
\* and a lease returns an in_progress row only when its leased_at is more
\* than 5 minutes old.
C32_DispositionFailureRollsBack ==
  [][\A id \in Ids :
       /\ (\/ dbErrors'["delete"][id] # dbErrors["delete"][id]
           \/ dbErrors'["failure"][id] # dbErrors["failure"][id]) =>
             /\ outbox' = outbox
             /\ dlq' = dlq
             /\ proc' = proc
             /\ \E w \in Workers :
                  /\ pipe[w][id].stage \in {"success", "failure"}
                  /\ pipe'[w][id] = IdlePipe
       /\ \A w \in Workers :
            (LeaseReturns(w, id) /\ outbox[id].status = "in_progress") =>
              outbox[id].leasedAt < now - StaleLeaseMs]_vars

\* the failure transaction of a message raised, its row stayed in_progress
\* with no attempt counted, and it was leased again after more than 5
\* minutes
C32_Witness ==
  \E w \in Workers, id \in Ids :
    /\ dbErrors["failure"][id] >= 1
    /\ outbox[id] # NoRow
    /\ outbox[id].status = "in_progress"
    /\ outbox[id].attempts = 0
    /\ outbox[id].leasedAt > StaleLeaseMs
    /\ pipe[w][id].stage = "handling"
    /\ projCalls[id] = 2

\* C33: in_flight accounting.  inFlightOperations of a worker is the
\* number of its pipelines that have started and not completed, between 0
\* and processBatchSize; it is 0 whenever the worker is at its loop test,
\* so the wait that follows the loop of a poll() call finds nothing in
\* flight and returns at once: that call is never left waiting.
C33_InFlightAccounting ==
  /\ [](\A w \in Workers :
          /\ inFlightOperations[w] = Cardinality(Running(w))
          /\ 0 <= inFlightOperations[w]
          /\ inFlightOperations[w] <= processBatchSize
          /\ wpc[w] \in {"loop", "waiting", "returned"} =>
                inFlightOperations[w] = 0
          /\ wpc[w] # "waiting")
  /\ [][\A w \in Workers :
          (wpc[w] = "loop" /\ wpc'[w] \notin {"loop", "chunk"}) =>
            /\ inFlightOperations[w] = 0
            /\ wpc'[w] = "returned"]_vars

\* poll() has returned after a batch in which every message was handled
\* and a pipeline ended in failure
C33_Witness ==
  \E w \in Workers :
    /\ wpc[w] = "returned"
    /\ proc[w] = "running"
    /\ inFlightOperations[w] = 0
    /\ handlerFailed
    /\ \A id \in Ids : projCalls[id] >= 1

\* C34: batch completes under shutdown.  With processBatchSize > 0, when
\* poll() has returned no chunk of the worker's batch is left and no
\* pipeline runs, and no row is under a lease whose pipeline did not run
\* (the ticks of this specification make no lease stale); shutdown() leaves
\* the chunks and the pipelines as they are; and whenever a chunk ends,
\* shut down or not, the next chunk of the batch starts: a chunk leaves the
\* batch only when all its pipelines have completed.
C34_BatchCompletesUnderShutdown ==
  /\ [](\A w \in ShutdownWorkers :
          wpc[w] = "returned" =>
            /\ chunks[w] = <<>>
            /\ \A id \in Ids :
                  /\ pipe[w][id] = IdlePipe
                  /\ (outbox[id] # NoRow /\ outbox[id].status = "in_progress")
                       => projCalls[id] >= 1)
  /\ [][\A w \in ShutdownWorkers :
          /\ (isShuttingDown'[w] /\ ~isShuttingDown[w] /\ proc' = proc) =>
                /\ chunks' = chunks
                /\ pipe' = pipe
                /\ wpc' = wpc
          /\ (wpc[w] = "chunk" /\ chunks'[w] # chunks[w]) =>
                /\ chunks'[w] = Tail(chunks[w])
                /\ \A id \in SeqToSet(Head(chunks[w])) :
                      pipe'[w][id] = IdlePipe
                /\ chunks'[w] # <<>> =>
                      /\ wpc'[w] = "chunk"
                      /\ \A id \in SeqToSet(Head(chunks'[w])) :
                            pipe'[w][id].stage = "fetching"
                /\ chunks'[w] = <<>> => wpc'[w] = "loop"
          /\ (wpc[w] = "loop" /\ chunks'[w] # <<>>) =>
                /\ wpc'[w] = "chunk"
                /\ \A id \in SeqToSet(Head(chunks'[w])) :
                      pipe'[w][id].stage = "fetching"]_vars

\* shutdown() was called at time 0, after the lease of a batch of two
\* chunks; both chunks ended in a reschedule at a later time, the second
\* chunk having started after the shutdown, and poll() has returned
C34_Witness ==
  \E w \in ShutdownWorkers :
    /\ wpc[w] = "returned"
    /\ processBatchSize = 1
    /\ shutdownAt[w] = 0
    /\ \A id \in Ids :
         /\ outbox[id] # NoRow
         /\ outbox[id].status = "pending"
         /\ outbox[id].attempts = 1
         /\ outbox[id].nextAvailableAt = CheckIntervalMs + 2 * BaseDelayMs

\* C35: lease frame.  A step that puts a row under a lease changes, of
\* the rows it leases, only status (to in_progress) and leased_at (to now):
\* attempts, next_available_at and event stay; every other row and the
\* dead-letter table stay as they are.  So the reclaim of a stale lease
\* leaves attempts as it was.
C35_LeaseFrame ==
  [][(\E j \in Ids :
        /\ outbox'[j] # NoRow
        /\ outbox'[j] # outbox[j]
        /\ outbox'[j].status = "in_progress") =>
       /\ dlq' = dlq
       /\ \A id \in Ids :
            \/ outbox'[id] = outbox[id]
            \/ /\ outbox[id] # NoRow
               /\ outbox'[id] # NoRow
               /\ Eligible(outbox[id], now)
               /\ outbox'[id].status = "in_progress"
               /\ outbox'[id].leasedAt = now
               /\ outbox'[id].attempts = outbox[id].attempts
               /\ outbox'[id].nextAvailableAt = outbox[id].nextAvailableAt
               /\ outbox'[id].event = outbox[id].event]_vars

\* a row whose first attempt ended without the failure protocol (a handler
\* threw or never returned) was reclaimed once its lease was stale and is
\* handled for the second time: attempts is still 0
C35_Witness ==
  \E id \in Ids :
    /\ outbox[id] # NoRow
    /\ outbox[id].status = "in_progress"
    /\ outbox[id].leasedAt > StaleLeaseMs
    /\ outbox[id].attempts = 0
    /\ outbox[id].nextAvailableAt = Null
    /\ projCalls[id] = 2
    /\ \A w \in Workers : pipe[w][id].stage \in {"idle", "handling"}
    /\ \E w \in Workers : pipe[w][id].stage = "handling"

\* the lease under which worker w took id is stale and is no longer the
\* lease of the row: another worker has leased the row since (its lease is
\* not stale) or has rescheduled it (it is pending)
Superseded(w, id) ==
  /\ batchLease[w].stale
  /\ outbox[id] # NoRow
  /\ \/ outbox[id].status = "pending"
     \/ /\ outbox[id].status = "in_progress"
        /\ outbox[id].leasedAt >= now - StaleLeaseMs

\* C36 (as claimed): lease ownership.  A worker whose lease on a row has
\* been superseded changes neither that row nor the dead-letter table when
\* its pipeline for the row ends: it does not delete the row, reschedule it
\* or move it to the dead-letter table.
C36_LeaseOwnership ==
  [][\A w \in Workers, id \in Ids :
       (/\ Superseded(w, id)
        /\ \/ PipeLeaves(w, id, "success")
           \/ PipeLeaves(w, id, "failure")) =>
         /\ outbox'[id] = outbox[id]
         /\ dlq' = dlq]_vars

\* C37 (as claimed): terminal outcomes are exclusive.  A message for which
\* a processing attempt saw both handlers return success (its pipeline
\* stands at the success disposition, or its row was deleted by the success
\* path) has no row in the dead-letter table.  The code does not keep this:
\* while one worker's handlers succeed under a lease that was reclaimed,
\* the reclaiming worker's attempt fails and exhausts the budget.
C37_TerminalOutcomesExclusive ==
  \A id \in Ids :
    (\/ succeeded[id]
     \/ \E w \in Workers : pipe[w][id].stage = "success") =>
      id \notin DlqIds(dlq)
\* ---- the event store and CreateOrderService ----

\* the row EventRepository.add inserts for the event execute builds: the
\* id is a fresh uuid (one per call), the version is 1
OrderRequestedRow(k, o) ==
  [id |-> k, eventName |-> "OrderRequested", aggregateId |-> o, version |-> 1]

\* findByAggregateId: the committed rows of one aggregate
findByAggregateId(tbl, o) == {e \in tbl : e.aggregateId = o}

\* events_aggregate_id_version_unique: a row of the table with the key of r
UniqueViolation(tbl, r) ==
  \E e \in tbl : e.aggregateId = r.aggregateId /\ e.version = r.version

\* the same key is held by a row another open transaction has inserted and
\* not yet committed: the index makes the INSERT wait for that transaction
WaitsOnUncommitted(k, r) ==
  \E j \in Execs \ {k} :
    /\ execs[j].pc = "added"
    /\ OrderRequestedRow(j, execs[j].orderId).aggregateId = r.aggregateId
    /\ OrderRequestedRow(j, execs[j].orderId).version = r.version

unchangedOutbox ==
  UNCHANGED <<dbVars, now, ticks, cfgVars, faultVars, inserted, workerVars,
              histVars>>

\* execute is called with orderId o: withTransaction opens the transaction
Execute(k, o) ==
  /\ execs[k].pc = "idle"
  /\ execs' = [execs EXCEPT ![k] = [pc |-> "begun", orderId |-> o,
                                    error |-> "none"]]
  /\ UNCHANGED events
  /\ unchangedOutbox

\* const existingEvents = await eventRepository.findByAggregateId(orderId);
\* a non-empty result throws and the transaction rolls back
FindExisting(k) ==
  /\ execs[k].pc = "begun"
  /\ IF findByAggregateId(events, execs[k].orderId) # {}
       THEN execs' = [execs EXCEPT ![k].pc = "failed",
                                   ![k].error = "already exists"]
       ELSE execs' = [execs EXCEPT ![k].pc = "adding"]
  /\ UNCHANGED events
  /\ unchangedOutbox

\* variant: the table has no unique index on (aggregate_id, version)
AddNoUniqueIndex(k) ==
  /\ execs[k].pc = "adding"
  /\ execs' = [execs EXCEPT ![k].pc = "added"]
  /\ UNCHANGED events
  /\ unchangedOutbox

\* await eventRepository.add(orderRequestedEvent): the INSERT waits while
\* another open transaction holds the key, raises 23505 when a committed
\* row has it (EventVersionConflictError, the transaction rolls back), and
\* otherwise leaves the row uncommitted in this transaction
Add(k) ==
  /\ execs[k].pc = "adding"
  /\ LET r == OrderRequestedRow(k, execs[k].orderId)
     IN /\ ~WaitsOnUncommitted(k, r)
        /\ IF UniqueViolation(events, r)
             THEN execs' = [execs EXCEPT ![k].pc = "failed",
                                         ![k].error = "version conflict"]
             ELSE execs' = [execs EXCEPT ![k].pc = "added"]
  /\ UNCHANGED events
  /\ unchangedOutbox

\* the callback of withTransaction returns: the transaction commits
Commit(k) ==
  /\ execs[k].pc = "added"
  /\ events' = events \cup {OrderRequestedRow(k, execs[k].orderId)}
  /\ execs' = [execs EXCEPT ![k].pc = "committed"]
  /\ unchangedOutbox

OrderNext ==
  \/ \E k \in Execs, o \in OrderIds : Execute(k, o)
  \/ \E k \in Execs : FindExisting(k)
  \/ \E k \in Execs : Add(k)
  \/ \E k \in Execs : Commit(k)

OrderInit ==
  /\ maxAttempts = MaxMaxAttempts
  /\ processBatchSize = ProcessBatchSize
  /\ leaseBatchSize = LeaseBatchSize
  /\ InitState

OrderSpec == OrderInit /\ [][OrderNext]_vars

\* C38: event-store optimistic concurrency.  In every interleaving of
\* execute calls: no two stored events share aggregateId and version; an
\* aggregate has at most one OrderRequested event, so of the calls with one
\* orderId at most one commits; a call that has ended without committing
\* has failed with an error and none of its rows is in the table.
C38_EventStoreConcurrency ==
  /\ \A e \in events, f \in events :
       (e.aggregateId = f.aggregateId /\ e.version = f.version) => e = f
  /\ \A o \in OrderIds :
       Cardinality({e \in findByAggregateId(events, o) :
                      e.eventName = "OrderRequested"}) <= 1
  /\ \A k \in Execs, j \in Execs :
       (/\ k # j
        /\ execs[k].pc = "committed"
        /\ execs[j].pc = "committed") => execs[k].orderId # execs[j].orderId
  /\ \A k \in Execs :
       /\ execs[k].pc = "committed" =>
            OrderRequestedRow(k, execs[k].orderId) \in events
       /\ execs[k].pc = "failed" =>
            /\ execs[k].error \in {"already exists", "version conflict"}
            /\ \A e \in events : e.id # k
       /\ execs[k].pc \in {"idle", "begun", "adding", "added"} =>
            \A e \in events : e.id # k

\* two calls with one orderId both found no events; one committed its
\* event and the other's INSERT was refused by the unique index; a third
\* call, started later, was refused by its own read
C38_Witness ==
  \E k \in Execs, j \in Execs, l \in Execs :
    /\ execs[k].orderId = execs[j].orderId
    /\ execs[l].orderId = execs[k].orderId
    /\ execs[k].pc = "committed"
    /\ execs[j].pc = "failed"
    /\ execs[j].error = "version conflict"
    /\ execs[l].pc = "failed"
    /\ execs[l].error = "already exists"
====
